---- MODULE Spec2Model ----
(***************************************************************************)
(* Epub2Pdf: the font module (setCustomFont, getFontBase64), the EPUB to   *)
(* PDF conversion (convertEpubToPdf with its chapter loop, render loop and *)
(* resolveImagePath) and the App's batch conversion (startConversion).     *)
(*                                                                         *)
(* Lengths on the page are counted in half millimetres, so that the half   *)
(* line height of the render loop (lineHeight * 0.5) is an integer.        *)
(* Strings whose content the code inspects (paths, references) are         *)
(* sequences of one-character strings; strings of which the code only      *)
(* uses the length (paragraph text, the preview) are modelled by length.   *)
(***************************************************************************)
EXTENDS Integers, Sequences, FiniteSets, TLC

VARIABLES
    \* ---- font module (module-level state of utils/epubToPdf)
    cachedFontBase64,   \* "null", "" or the base64 of a font
    isUserProvided,     \* BOOLEAN
    lastUserFont,       \* history: base64 set by the last resolved setCustomFont, or "none"
    \* ---- one convertEpubToPdf call
    pc,                 \* position of the call
    archive,            \* the kind of file handed to the call
    fontBase64,         \* the font the call obtained ("none" before)
    urlIdx,             \* index into FONT_URLS of the fetch in flight
    fetchLog,           \* the fetches this call attempted: <<[url, ok]>>
    reported,           \* the values passed to onProgress, in order
    error,              \* message of the error thrown, or "none"
    pkgParsed,          \* the package document has been parsed
    spineIds,           \* idrefs of the spine, in order
    manifest,           \* ids the manifest maps to an href
    entries,            \* ids whose opfDir + href is an entry of the archive
    docCreated,         \* new jsPDF() has run
    serialized,         \* doc.output('blob') has run and the blob is returned
    spinePos,           \* spine entries the chapter loop has passed
    processedChapters,
    rendered,           \* ids of the chapters rendered, in order
    convCount,          \* calls of convertEpubToPdf so far
    \* ---- renderer
    y,                  \* cursor, in half millimetres
    pages,              \* pages of the output document
    textBuffer,         \* the Text events buffered, in order
    fullTextPreview,    \* length of the preview
    itemsLeft,          \* content events the chapter may still hold
    placed,             \* what the last step placed: {[kind, page, y, w, h, iw, ih, fresh]}
    imageFailed,        \* history: the try block of an Image event of this call threw
    lastLine,           \* history: [chapter, page, y] of the last line placed, NoLine before
    texts,              \* history: lengths of the Text events of the chapter, in order
    paragraphs,         \* history: the paragraphs flushed in the chapter, each the
                        \* lengths of the Text events it was made of
    \* ---- resolveImagePath
    pathIn,             \* the arguments: [chapter, ref]
    pathOut,            \* the result: [kind, val], kind "none" before the call
    \* ---- traverse
    docTree,            \* the element traverse is called on
    items,              \* the content events it pushed, NotLinearized before the call
    \* ---- App
    files,              \* React state: the file records, in order
    isConverting,
    batch,              \* the files array startConversion captured
    batchPos,           \* index in batch of the file being converted
    appPc,              \* position of startConversion: "idle" or "converting"
    nextId,             \* number of file records created so far
    lastAnalyze         \* history: [id, outcome] of the last handleAnalyze, NoAnalysis before

fontVars == <<cachedFontBase64, isUserProvided, lastUserFont>>
callVars == <<pc, archive, fontBase64, urlIdx, fetchLog, reported, error, convCount>>
bookVars == <<pkgParsed, spineIds, manifest, entries, docCreated, serialized,
              spinePos, processedChapters, rendered>>
histVars == <<imageFailed, lastLine, texts, paragraphs>>
renderVars == <<y, pages, textBuffer, fullTextPreview, itemsLeft, placed, histVars>>
pathVars == <<pathIn, pathOut>>
treeVars == <<docTree, items>>
appVars == <<files, isConverting, batch, batchPos, appPc, nextId, lastAnalyze>>
vars == <<fontVars, callVars, bookVars, renderVars, pathVars, treeVars, appVars>>
otherVars == <<fontVars, callVars, bookVars, renderVars, pathVars, treeVars>>

(***************************************************************************)
(* Bounds of the model.                                                    *)
(***************************************************************************)
MaxSpine == 2          \* itemref elements of a package document
MaxItems == 2          \* content events of one chapter
MaxConversions == 2    \* convertEpubToPdf calls in a run of the font module
CharsPerLine == 100    \* characters splitTextToSize fits on one line

(***************************************************************************)
(* Program constants.                                                      *)
(***************************************************************************)
HalfMm == 2                     \* half millimetres per millimetre
margin == 20 * HalfMm
lineHeight == 7 * HalfMm
pageHeight == 297 * HalfMm      \* jsPDF default: A4 portrait, in mm
pageWidth == 210 * HalfMm
maxLineWidth == pageWidth - margin * 2
PreviewCap == 15000
FONT_URLS == <<"cdn.jsdelivr.net", "raw.githubusercontent.com">>

ErrFont == "Failed to download font."
ErrZip == "Can't find end of central directory"
ErrContainer == "Invalid EPUB: Missing META-INF/container.xml"
ErrOpfPath == "Invalid EPUB: Could not find OPF path"
ErrOpfFile == "Invalid EPUB: OPF file missing"
ErrNoChapters == "Could not find any chapters in this EPUB."
MalformedArchive == {ErrContainer, ErrOpfPath, ErrOpfFile}

ArchiveKinds == {"notZip", "noContainer", "noFullPath", "noOpf", "ok"}
Ids == {"a", "b"}
NoIdref == ""           \* an itemref without idref attribute

(***************************************************************************)
(* Helpers on sequences.                                                   *)
(***************************************************************************)
Last(s) == s[Len(s)]

SeqsUpTo(S, n) == UNION {[1..k -> S] : k \in 0..n}

RECURSIVE Filter(_, _)
Filter(s, S) ==
    IF s = <<>> THEN <<>>
    ELSE IF Head(s) \in S THEN <<Head(s)>> \o Filter(Tail(s), S)
         ELSE Filter(Tail(s), S)

Truthy(s) == s \notin {"null", ""}

(***************************************************************************)
(* Font module.                                                            *)
(***************************************************************************)
RemoteFont(i) == IF i = 1 THEN "remote1" ELSE "remote2"
UserFiles == {"fontA.ttf", "empty.ttf", "unreadable.ttf"}
\* btoa of the bytes of an uploaded file
Base64Of(file) == IF file = "empty.ttf" THEN "" ELSE "userA"

\* setCustomFont(file): file.arrayBuffer() is awaited, then the cache is
\* written in one synchronous block; a read failure throws and writes nothing.
SetCustomFont(file) ==
    /\ file \in UserFiles
    /\ IF file = "unreadable.ttf"
       THEN UNCHANGED fontVars
       ELSE /\ cachedFontBase64' = Base64Of(file)
            /\ isUserProvided' = TRUE
            /\ lastUserFont' = Base64Of(file)
    /\ UNCHANGED <<callVars, bookVars, renderVars, pathVars, treeVars, appVars>>

isCustomFontLoaded == isUserProvided

(***************************************************************************)
(* convertEpubToPdf: start, and getFontBase64.                             *)
(***************************************************************************)
Report(p) == reported' = Append(reported, p)

\* onProgress(1); getFontBase64 up to its return from the cache or to its
\* first fetch.
ConvertStart ==
    /\ pc = "ready"
    /\ Report(1)
    /\ IF Truthy(cachedFontBase64)
       THEN /\ fontBase64' = cachedFontBase64
            /\ pc' = "fontReady"
            /\ UNCHANGED <<urlIdx, fetchLog>>
       ELSE /\ pc' = "fetching"
            /\ urlIdx' = 1
            /\ UNCHANGED <<fontBase64, fetchLog>>
    /\ UNCHANGED <<archive, error, convCount>>
    /\ UNCHANGED <<fontVars, bookVars, renderVars, pathVars, treeVars, appVars>>

\* The fetch of FONT_URLS[urlIdx] succeeds: the download is cached and returned.
FetchSucceeds ==
    /\ pc = "fetching"
    /\ fetchLog' = Append(fetchLog, [url |-> urlIdx, ok |-> TRUE])
    /\ cachedFontBase64' = RemoteFont(urlIdx)
    /\ isUserProvided' = FALSE
    /\ fontBase64' = RemoteFont(urlIdx)
    /\ pc' = "fontReady"
    /\ UNCHANGED <<lastUserFont, archive, urlIdx, reported, error, convCount>>
    /\ UNCHANGED <<bookVars, renderVars, pathVars, treeVars, appVars>>

\* The loop over FONT_URLS has a URL after the i-th.
NextUrlNone(i) == FALSE
NextUrlExists(i) == i < Len(FONT_URLS)

\* The fetch fails (network error or !response.ok): the next URL is tried,
\* and after the last one the call throws.
FetchFails ==
    /\ pc = "fetching"
    /\ fetchLog' = Append(fetchLog, [url |-> urlIdx, ok |-> FALSE])
    /\ IF NextUrlExists(urlIdx)
       THEN /\ urlIdx' = urlIdx + 1
            /\ UNCHANGED <<pc, error>>
       ELSE /\ pc' = "failed"
            /\ error' = ErrFont
            /\ UNCHANGED urlIdx
    /\ UNCHANGED <<archive, fontBase64, reported, convCount>>
    /\ UNCHANGED <<fontVars, bookVars, renderVars, pathVars, treeVars, appVars>>

(***************************************************************************)
(* resolveImagePath, on strings as sequences of characters.                *)
(***************************************************************************)
StartsWith(s, p) == Len(s) >= Len(p) /\ SubSeq(s, 1, Len(p)) = p

\* String.prototype.split(sep) for a one-character separator: never empty,
\* "" splits to [""], "a/" to ["a", ""].
RECURSIVE Split(_, _)
Split(s, sep) ==
    IF \A i \in 1..Len(s) : s[i] # sep THEN <<s>>
    ELSE LET i == CHOOSE k \in 1..Len(s) :
                      s[k] = sep /\ \A j \in 1..(k - 1) : s[j] # sep
         IN  <<SubSeq(s, 1, i - 1)>> \o Split(SubSeq(s, i + 1, Len(s)), sep)

\* Array.prototype.join(sep)
RECURSIVE Join(_, _)
Join(segs, sep) ==
    IF segs = <<>> THEN <<>>
    ELSE IF Len(segs) = 1 THEN segs[1]
    ELSE segs[1] \o <<sep>> \o Join(Tail(segs), sep)

\* Array.prototype.pop(): nothing happens on an empty array.
Pop(stack) == IF stack = <<>> THEN <<>> ELSE SubSeq(stack, 1, Len(stack) - 1)

\* The percent escapes the inputs of the model use; any other text after a
\* "%" is a malformed escape.
PercentDecoded(a, b) ==
    IF <<a, b>> = <<"2", "0">> THEN " "
    ELSE IF <<a, b>> = <<"2", "e">> THEN "."
    ELSE "malformed"

\* decodeURIComponent: [ok, val]; ok is FALSE where it throws URIError.
RECURSIVE DecodeURIComponent(_)
DecodeURIComponent(s) ==
    IF s = <<>> THEN [ok |-> TRUE, val |-> <<>>]
    ELSE IF Head(s) # "%"
    THEN LET r == DecodeURIComponent(Tail(s))
         IN  [ok |-> r.ok, val |-> <<Head(s)>> \o r.val]
    ELSE IF Len(s) < 3 \/ PercentDecoded(s[2], s[3]) = "malformed"
    THEN [ok |-> FALSE, val |-> <<>>]
    ELSE LET r == DecodeURIComponent(SubSeq(s, 4, Len(s)))
         IN  [ok |-> r.ok, val |-> <<PercentDecoded(s[2], s[3])>> \o r.val]

\* The test that makes resolveImagePath return null.
SkipsReference(relativeSrc) ==
    relativeSrc = <<>> \/ StartsWith(relativeSrc, <<"h", "t", "t", "p">>)

\* One segment of the reference applied to the stack.
ApplyPart(stack, part) ==
    IF part = <<".">> \/ part = <<>> THEN stack
    ELSE IF part = <<".", ".">> THEN Pop(stack)
    ELSE Append(stack, part)

RECURSIVE ApplyParts(_, _)
ApplyParts(stack, parts) ==
    IF parts = <<>> THEN stack
    ELSE ApplyParts(ApplyPart(stack, Head(parts)), Tail(parts))

\* resolveImagePath: [kind, val] with kind "null" (null is returned), "path"
\* or "URIError" (decodeURIComponent throws).
resolveImagePath(currentFilePath, relativeSrc) ==
    IF SkipsReference(relativeSrc) THEN [kind |-> "null", val |-> <<>>]
    ELSE LET cleanSrc == Split(relativeSrc, "#")[1]
             stack == Pop(Split(currentFilePath, "/"))
             parts == Split(cleanSrc, "/")
             d == DecodeURIComponent(Join(ApplyParts(stack, parts), "/"))
         IN  IF d.ok THEN [kind |-> "path", val |-> d.val]
             ELSE [kind |-> "URIError", val |-> <<>>]

(***************************************************************************)
(* resolveImagePath applied to bounded inputs.                             *)
(***************************************************************************)
MaxRefLen == 4
RefAlphabet == {"a", "/", ".", "#"}

ChapterInText == <<"O", "E", "B", "P", "S", "/", "T", "e", "x", "t", "/", "c", "h", "1", ".", "x", "h", "t", "m", "l">>
ChapterAtRoot == <<"c", "h", "1", ".", "x", "h", "t", "m", "l">>
ChapterPaths == {ChapterInText, ChapterAtRoot, <<"a", "/", "b", "/", "c">>}

RefCover == <<".", ".", "/", "I", "m", "a", "g", "e", "s", "/", "c", "o", "v", "e", "r", ".", "j", "p", "g">>
RefFragment == <<"i", "m", "g", ".", "p", "n", "g", "#", "x", "y", "w", "h", "=", "0", ",", "0", ",", "1", "0", ",", "1", "0">>
RefHttp == <<"h", "t", "t", "p", ":", "/", "/", "a", "/", "b", ".", "p", "n", "g">>
RefHttps == <<"h", "t", "t", "p", "s", ":", "/", "/", "a", "/", "b", ".", "p", "n", "g">>
RefHttpLike == <<"h", "t", "t", "p", "d", "/", "a", ".", "p", "n", "g">>
RefEscaped == <<"a", "%", "2", "0", "b", ".", "p", "n", "g">>
RefBadEscape == <<"5", "0", "%", ".", "p", "n", "g">>
NamedRefs == {RefCover, RefFragment, RefHttp, RefHttps, RefHttpLike,
              RefEscaped, RefBadEscape}
Refs == SeqsUpTo(RefAlphabet, MaxRefLen) \cup NamedRefs

NotApplied == [kind |-> "none", val |-> <<>>]

InitPath ==
    /\ pathIn \in [chapter : ChapterPaths, ref : Refs]
    /\ pathOut = NotApplied

\* A call resolveImagePath(currentFilePath, relativeSrc).
ResolveStep ==
    /\ pathOut = NotApplied
    /\ pathOut' = resolveImagePath(pathIn.chapter, pathIn.ref)
    /\ UNCHANGED <<pathIn, fontVars, callVars, bookVars, renderVars, treeVars, appVars>>

(***************************************************************************)
(* convertEpubToPdf: the archive and the package document.                 *)
(***************************************************************************)
Throw(msg) == pc' = "failed" /\ error' = msg

ArchiveErrorUnchecked(kind) ==
    IF kind = "notZip" THEN ErrZip
    ELSE IF kind = "noFullPath" THEN ErrOpfPath
    ELSE IF kind = "noOpf" THEN ErrOpfFile
    ELSE "none"

\* What opening the archive throws for a kind of file, "none" if nothing:
\* JSZip.loadAsync, the container entry, its full-path attribute, the OPF entry.
ArchiveError(kind) ==
    IF kind = "notZip" THEN ErrZip
    ELSE IF kind = "noContainer" THEN ErrContainer
    ELSE IF kind = "noFullPath" THEN ErrOpfPath
    ELSE IF kind = "noOpf" THEN ErrOpfFile
    ELSE "none"

\* onProgress(10), the archive is loaded, the container read, onProgress(15)
\* once the OPF path is known, the OPF entry read.
OpenArchive ==
    /\ pc = "fontReady"
    /\ reported' = IF archive \in {"noOpf", "ok"}
                   THEN reported \o <<10, 15>>
                   ELSE Append(reported, 10)
    /\ IF ArchiveError(archive) # "none"
       THEN Throw(ArchiveError(archive))
       ELSE pc' = "package" /\ UNCHANGED error
    /\ UNCHANGED <<archive, fontBase64, urlIdx, fetchLog, convCount>>
    /\ UNCHANGED <<fontVars, bookVars, renderVars, pathVars, treeVars, appVars>>

\* The idrefs of the itemref elements that carry one.
SpineOf(itemrefs) == Filter(itemrefs, Ids)

\* The spine check that stops the conversion.
NoChaptersUnchecked(spine) == FALSE
NoChapters(spine) == Len(spine) = 0

\* The package document is parsed: itemrefs are its itemref elements (their
\* idref, NoIdref without one), man the ids of the items with id and href,
\* ent the ids whose file is in the archive. With a spine: onProgress(20),
\* new jsPDF(), y = 20.
ReadPackage(itemrefs, man, ent) ==
    /\ pc = "package"
    /\ pkgParsed' = TRUE
    /\ spineIds' = SpineOf(itemrefs)
    /\ manifest' = man
    /\ entries' = ent
    /\ IF NoChapters(SpineOf(itemrefs))
       THEN /\ Throw(ErrNoChapters)
            /\ UNCHANGED <<reported, docCreated, y, pages>>
       ELSE /\ Report(20)
            /\ docCreated' = TRUE
            /\ y' = 20 * HalfMm
            /\ pages' = 1
            /\ pc' = "chapters"
            /\ UNCHANGED error
    /\ UNCHANGED <<serialized, spinePos, processedChapters, rendered>>
    /\ UNCHANGED <<archive, fontBase64, urlIdx, fetchLog, convCount>>
    /\ UNCHANGED <<textBuffer, fullTextPreview, itemsLeft, placed, histVars>>
    /\ UNCHANGED <<fontVars, pathVars, treeVars, appVars>>

(***************************************************************************)
(* The renderer. A cursor is [y, pages, placed].                           *)
(***************************************************************************)
TextItem(len, lead, trail) ==
    [type |-> "text", len |-> len, lead |-> lead, trail |-> trail,
     src |-> <<>>, data |-> "", w |-> 0, h |-> 0]
NewlineItem ==
    [type |-> "newline", len |-> 0, lead |-> FALSE, trail |-> FALSE,
     src |-> <<>>, data |-> "", w |-> 0, h |-> 0]
ImageItem(src, data, w, h) ==
    [type |-> "image", len |-> 0, lead |-> FALSE, trail |-> FALSE,
     src |-> src, data |-> data, w |-> w, h |-> h]

addNewPage(c) == [c EXCEPT !.y = margin, !.pages = @ + 1]

\* doc.text or doc.addImage at the cursor: w, h the size drawn, iw, ih the
\* intrinsic size of an image (0 for a line).
Place(c, kind, w, h, iw, ih, fresh) ==
    [c EXCEPT !.placed = @ \cup {[kind |-> kind, page |-> c.pages, y |-> c.y,
                                  w |-> w, h |-> h, iw |-> iw, ih |-> ih,
                                  fresh |-> fresh]}]

\* The page break test before a line is placed.
LineNeedsPageNever(cy) == FALSE
LineNeedsPage(cy) == cy + lineHeight > pageHeight - margin

\* One wrapped line: the page break test, doc.text, y += lineHeight.
PlaceLine(c) ==
    LET brk == LineNeedsPage(c.y)
        c1 == IF brk THEN addNewPage(c) ELSE c
    IN  [Place(c1, "line", 0, lineHeight, 0, 0, brk) EXCEPT !.y = c1.y + lineHeight]

\* Of n lines placed one below the other from cy, those placed before the
\* page break test first succeeds: line i (from 0) passes the test when
\* cy + (i + 1) * lineHeight <= pageHeight - margin.
LinesThatFit(cy, n) ==
    LET room == (pageHeight - margin - cy) \div lineHeight
    IN  IF cy > pageHeight - margin \/ room <= 0 THEN 0
        ELSE IF room < n THEN room ELSE n

\* The loop over the n wrapped lines of a paragraph, taken a page at a
\* time: the first line as PlaceLine places it, then the lines that follow
\* it without a page break.
RECURSIVE PlaceLines(_, _)
PlaceLines(c, n) ==
    IF n = 0 THEN c
    ELSE LET c1 == PlaceLine(c)
             k == LinesThatFit(c1.y, n - 1)
             c2 == [c1 EXCEPT !.y = @ + k * lineHeight,
                              !.placed = @ \cup
                                  {[kind |-> "line", page |-> c1.pages,
                                    y |-> c1.y + i * lineHeight,
                                    w |-> 0, h |-> lineHeight, iw |-> 0, ih |-> 0,
                                    fresh |-> FALSE] : i \in 0..(k - 1)}]
         IN  PlaceLines(c2, n - 1 - k)

RECURSIVE SumLen(_)
SumLen(buf) == IF buf = <<>> THEN 0 ELSE Head(buf).len + SumLen(Tail(buf))

\* Length of textBuffer.trim(): every Text event holds a character that is
\* not white space, and its white space is collapsed to single spaces.
CleanLen(buf) ==
    IF buf = <<>> THEN 0
    ELSE SumLen(buf) - (IF Head(buf).lead THEN 1 ELSE 0)
                     - (IF Last(buf).trail THEN 1 ELSE 0)

\* Lines doc.splitTextToSize makes of a text of n characters.
LinesOf(n) == (n + CharsPerLine - 1) \div CharsPerLine

\* The preview after a paragraph of n characters is flushed.
AppendPreviewUncapped(preview, n) == preview + n + 1
AppendPreview(preview, n) ==
    IF preview < PreviewCap THEN preview + n + 1 ELSE preview

\* The flush of textBuffer: [c, preview].
Flush(c, buf, preview) ==
    IF buf # <<>> /\ CleanLen(buf) > 0
    THEN [c |-> PlaceLines(c, LinesOf(CleanLen(buf))),
          preview |-> AppendPreview(preview, CleanLen(buf))]
    ELSE [c |-> c, preview |-> preview]

\* A Newline event after the flush.
Newline(c) ==
    LET c1 == [c EXCEPT !.y = @ + lineHeight \div 2]
    IN  IF c1.y > pageHeight - margin THEN addNewPage(c1) ELSE c1

\* imgH * Math.min(maxLineWidth / imgW, 1); the sizes of the images
\* rendered are such that the product is a whole number.
FinalHUnscaled(w, h) == h
FinalH(w, h) == IF w <= maxLineWidth THEN h ELSE (h * maxLineWidth) \div w

\* imgW * Math.min(maxLineWidth / imgW, 1)
FinalW(w) == IF w <= maxLineWidth THEN w ELSE (w * maxLineWidth) \div w

\* The archive: the chapter of id is at opfDir + href, the one image at O/i.
ChapterFullPath(id) == <<"O", "/", "T", "/", id>>
ImageEntries == {<<"O", "/", "i">>}

\* The try block of an Image event throws: decodeURIComponent in
\* resolveImagePath, or getImageProperties ("badData") or addImage ("badAdd")
\* on the entry the reference resolves to.
ImageThrows(fullPath, item) ==
    LET r == resolveImagePath(fullPath, item.src)
    IN  \/ r.kind = "URIError"
        \/ r.kind = "path" /\ r.val \in ImageEntries /\ item.data \in {"badData", "badAdd"}

\* What is thrown in the try block gets out of the Image branch: never, the
\* catch block logs it and the loop goes on.
ImageErrorRethrown(thrown) == thrown
ImageErrorEscapes(thrown) == FALSE

\* An Image event after the flush, with its try/catch: a reference that
\* resolves to nothing or to no entry, and a failure of decodeURIComponent or
\* of getImageProperties ("badData"), leave the cursor; a failure of addImage
\* ("badAdd") comes after the page break.
Image(c, fullPath, item) ==
    LET r == resolveImagePath(fullPath, item.src)
        finalH == FinalH(item.w, item.h)
        brk == c.y + finalH > pageHeight - margin
        c1 == IF brk THEN addNewPage(c) ELSE c
    IN  IF r.kind # "path" \/ r.val \notin ImageEntries \/ item.data = "badData"
        THEN c
        ELSE IF item.data = "badAdd" THEN c1
        ELSE [Place(c1, "image", FinalW(item.w), finalH, item.w, item.h, brk)
                  EXCEPT !.y = c1.y + finalH + lineHeight]

\* Chapter spacing.
ChapterSpacingNone(c) == c
ChapterSpacing(c) ==
    IF c.y < pageHeight - margin THEN [c EXCEPT !.y = @ + lineHeight * 2]
    ELSE addNewPage(c)

\* 20 + Math.floor((processedChapters / totalChapters) * 75): in double
\* arithmetic (k / n) * 75 has the floor of 75 * k / n for every n below 15,
\* which covers the spines modelled (it is one less for k = 11, n = 15).
ChapterProgressTo100(k, n) == 20 + (80 * k) \div n
ChapterProgress(k, n) == 20 + (75 * k) \div n

Cursor == [y |-> y, pages |-> pages, placed |-> {}]

NoLine == [chapter |-> 0, page |-> 0, y |-> 0]

Lens(buf) == [i \in DOMAIN buf |-> buf[i].len]

\* The paragraphs laid out so far, once buf has been flushed.
ParagraphsAfter(pars, buf) ==
    IF buf # <<>> /\ CleanLen(buf) > 0 THEN Append(pars, Lens(buf)) ELSE pars

\* textBuffer = "" after the flush.
BufferKept(buf) == buf
BufferAfterFlush(buf) == <<>>

\* The last line placed once the flush of buf has left the cursor at c: the
\* flush of a paragraph ends with a line at c.y - lineHeight on the last page.
LastLineAfter(c, buf) ==
    IF buf # <<>> /\ CleanLen(buf) > 0
    THEN [chapter |-> Len(rendered), page |-> c.pages, y |-> c.y - lineHeight]
    ELSE lastLine

SetCursor(c) == y' = c.y /\ pages' = c.pages /\ placed' = c.placed

(***************************************************************************)
(* convertEpubToPdf: the chapter loop and the render loop.                 *)
(***************************************************************************)
\* The spine entry is rendered: its id has an href and the archive the file.
HasHref(id, man) == id \in man
HasEntryUnchecked(id, ent) == TRUE
HasEntry(id, ent) == id \in ent

\* The top of the chapter loop, for the next spine id.
ChapterBegin ==
    /\ pc = "chapters"
    /\ spinePos < Len(spineIds)
    /\ LET id == spineIds[spinePos + 1]
       IN  IF ~HasHref(id, manifest)
           THEN \* continue
                /\ spinePos' = spinePos + 1
                /\ UNCHANGED <<pc, reported, processedChapters, rendered,
                               textBuffer, itemsLeft, texts, paragraphs>>
           ELSE IF ~HasEntry(id, entries)
           THEN /\ spinePos' = spinePos + 1
                /\ processedChapters' = processedChapters + 1
                /\ Report(ChapterProgress(processedChapters + 1, Len(spineIds)))
                /\ UNCHANGED <<pc, rendered, textBuffer, itemsLeft, texts, paragraphs>>
           ELSE \* the chapter is read, parsed and linearized
                /\ pc' = "items"
                /\ rendered' = Append(rendered, id)
                /\ textBuffer' = <<>>
                /\ itemsLeft' = MaxItems
                /\ texts' = <<>>
                /\ paragraphs' = <<>>
                /\ UNCHANGED <<spinePos, reported, processedChapters>>
    /\ placed' = {}
    /\ UNCHANGED <<pkgParsed, spineIds, manifest, entries, docCreated, serialized>>
    /\ UNCHANGED <<archive, fontBase64, urlIdx, fetchLog, error, convCount>>
    /\ UNCHANGED <<y, pages, fullTextPreview, imageFailed, lastLine>>
    /\ UNCHANGED <<fontVars, pathVars, treeVars, appVars>>

\* One pass of the render loop, for the next content event.
RenderItem(item) ==
    /\ pc = "items"
    /\ itemsLeft > 0
    /\ itemsLeft' = itemsLeft - 1
    /\ IF item.type = "text"
       THEN /\ textBuffer' = Append(textBuffer, item)
            /\ placed' = {}
            /\ texts' = Append(texts, item.len)
            /\ UNCHANGED <<y, pages, fullTextPreview, imageFailed, lastLine,
                           paragraphs, pc, error>>
       ELSE LET f == Flush(Cursor, textBuffer, fullTextPreview)
                fullPath == ChapterFullPath(spineIds[spinePos + 1])
                thrown == item.type = "image" /\ ImageThrows(fullPath, item)
            IN  /\ textBuffer' = BufferAfterFlush(textBuffer)
                /\ paragraphs' = ParagraphsAfter(paragraphs, textBuffer)
                /\ UNCHANGED texts
                /\ fullTextPreview' = f.preview
                /\ SetCursor(IF item.type = "newline" THEN Newline(f.c)
                             ELSE Image(f.c, fullPath, item))
                /\ imageFailed' = (imageFailed \/ thrown)
                /\ lastLine' = LastLineAfter(f.c, textBuffer)
                /\ IF ImageErrorEscapes(thrown)
                   THEN Throw("Error rendering image")
                   ELSE UNCHANGED <<pc, error>>
    /\ UNCHANGED <<archive, fontBase64, urlIdx, fetchLog, reported, convCount>>
    /\ UNCHANGED <<bookVars, fontVars, pathVars, treeVars, appVars>>

\* The end of the events: the last flush, the chapter spacing,
\* processedChapters++ and onProgress.
ChapterEnd ==
    /\ pc = "items"
    /\ LET f == Flush(Cursor, textBuffer, fullTextPreview)
       IN  /\ fullTextPreview' = f.preview
           /\ SetCursor(ChapterSpacing(f.c))
           /\ lastLine' = LastLineAfter(f.c, textBuffer)
           /\ paragraphs' = ParagraphsAfter(paragraphs, textBuffer)
    /\ processedChapters' = processedChapters + 1
    /\ Report(ChapterProgress(processedChapters + 1, Len(spineIds)))
    /\ spinePos' = spinePos + 1
    /\ pc' = "chapters"
    /\ UNCHANGED <<textBuffer, itemsLeft, imageFailed, texts>>
    /\ UNCHANGED <<pkgParsed, spineIds, manifest, entries, docCreated, serialized, rendered>>
    /\ UNCHANGED <<archive, fontBase64, urlIdx, fetchLog, error, convCount>>
    /\ UNCHANGED <<fontVars, pathVars, treeVars, appVars>>

\* After the loop: onProgress(98), doc.output('blob'), onProgress(100), return.
Finalize ==
    /\ pc = "chapters"
    /\ spinePos = Len(spineIds)
    /\ reported' = reported \o <<98, 100>>
    /\ serialized' = TRUE
    /\ pc' = "returned"
    /\ UNCHANGED <<pkgParsed, spineIds, manifest, entries, docCreated,
                   spinePos, processedChapters, rendered>>
    /\ UNCHANGED <<archive, fontBase64, urlIdx, fetchLog, error, convCount>>
    /\ UNCHANGED <<fontVars, renderVars, pathVars, treeVars, appVars>>

(***************************************************************************)
(* traverse: the linearizer of a chapter's DOM. A node is                  *)
(* [tag, text, src, href, kids]: tag "#text" for a text node with its      *)
(* textContent in text, else the lower-case tag name, with the src and     *)
(* xlink:href attributes (<<>> when absent) and the child nodes.           *)
(***************************************************************************)
Node(tag, text, src, href, kids) ==
    [tag |-> tag, text |-> text, src |-> src, href |-> href, kids |-> kids]
TextNode(text) == Node("#text", text, <<>>, <<>>, <<>>)
Element(tag, kids) == Node(tag, <<>>, <<>>, <<>>, kids)

Event(type, val) == [type |-> type, val |-> val]
NewlineEvent == Event("newline", <<>>)

\* text.replace(/\s+/g, ' ')
RECURSIVE CollapseSpaces(_)
CollapseSpaces(text) ==
    IF Len(text) < 2 THEN text
    ELSE IF text[1] = " " /\ text[2] = " " THEN CollapseSpaces(Tail(text))
    ELSE <<text[1]>> \o CollapseSpaces(Tail(text))

\* text.trim().length > 0
NotBlank(text) == \E i \in DOMAIN text : text[i] # " "

SkippedTags == {"head", "style", "script", "title", "meta", "link"}
ImageTags == {"img", "image"}
HeadingTags == {"h1", "h2", "h3", "h4", "h5", "h6"}
BlockTagsNoHeadings == {"p", "div", "li", "blockquote", "section", "article"}
BlockTags == {"p", "div", "li", "h1", "h2", "h3", "h4", "h5", "h6",
              "blockquote", "section", "article"}

\* getAttribute('src') || getAttribute('xlink:href')
SrcOf(el) == IF el.src # <<>> THEN el.src ELSE el.href

\* items.push of an image reference, if there is one.
PushImage(its, src) == IF src # <<>> THEN Append(its, Event("image", src)) ELSE its

\* el.querySelector('image, img'): the first descendant in document order
\* that is an image element, as a sequence of at most one node.
RECURSIVE FirstImage(_)
FirstImage(kids) ==
    IF kids = <<>> THEN <<>>
    ELSE IF Head(kids).tag \in ImageTags THEN <<Head(kids)>>
    ELSE IF FirstImage(Head(kids).kids) # <<>> THEN FirstImage(Head(kids).kids)
    ELSE FirstImage(Tail(kids))

\* traverse(node) with the items pushed so far; TraverseAll is
\* node.childNodes.forEach(child => traverse(child)).
RECURSIVE Traverse(_, _)
RECURSIVE TraverseAll(_, _)
Traverse(node, its) ==
    IF node.tag = "#text"
    THEN IF NotBlank(CollapseSpaces(node.text))
         THEN Append(its, Event("text", CollapseSpaces(node.text)))
         ELSE its
    ELSE IF node.tag \in SkippedTags THEN its
    ELSE IF node.tag \in ImageTags THEN PushImage(its, SrcOf(node))
    ELSE IF node.tag = "svg"
    THEN IF FirstImage(node.kids) # <<>>
         THEN PushImage(its, SrcOf(FirstImage(node.kids)[1]))
         ELSE its
    ELSE LET before == IF node.tag \in HeadingTags
                       THEN its \o <<NewlineEvent, NewlineEvent>>
                       ELSE its
             inner == TraverseAll(node.kids, before)
             block == IF node.tag \in BlockTags THEN Append(inner, NewlineEvent) ELSE inner
         IN  IF node.tag = "br" THEN Append(block, NewlineEvent) ELSE block

TraverseAll(kids, its) ==
    IF kids = <<>> THEN its
    ELSE TraverseAll(Tail(kids), Traverse(Head(kids), its))

\* The trees linearized: a body of one element and at most one more node;
\* the element has up to MaxKids children, each a text, an image, a line
\* break or a small element.
MaxKids == 2

Leaves ==
    {TextNode(<<"a">>), TextNode(<<" ">>), TextNode(<<"a", " ", " ", "b">>),
     Node("img", <<>>, <<"s">>, <<>>, <<>>),
     Element("br", <<>>),
     Element("h1", <<TextNode(<<"c">>)>>),
     Element("li", <<TextNode(<<"c">>)>>)}

ElementTags == {"h2", "p", "span", "script", "image", "svg"}

Elements ==
    {Node(tag, <<>>, <<>>, IF tag = "image" THEN <<"x">> ELSE <<>>, kids) :
        tag \in ElementTags, kids \in SeqsUpTo(Leaves, MaxKids)}

Bodies ==
    {Element("body", <<el>>) : el \in Elements}
        \cup {Element("body", <<el, leaf>>) : el \in Elements, leaf \in Leaves}
        \cup {Element("body", <<leaf, el>>) : el \in Elements, leaf \in Leaves}

NotLinearized == <<Event("none", <<>>)>>

NoTree ==
    /\ docTree = Element("body", <<>>)
    /\ items = NotLinearized

InitTree ==
    /\ docTree \in Bodies
    /\ items = NotLinearized

\* const items = []; traverse(docHtml.body)
Linearize ==
    /\ items = NotLinearized
    /\ items' = Traverse(docTree, <<>>)
    /\ UNCHANGED <<docTree, fontVars, callVars, bookVars, renderVars, pathVars, appVars>>

(***************************************************************************)
(* Initial states.                                                         *)
(***************************************************************************)
\* The states the font module can be in between calls.
FontStates ==
    {[cached |-> "null", user |-> FALSE, last |-> "none"],
     [cached |-> "remote1", user |-> FALSE, last |-> "none"],
     [cached |-> "userA", user |-> TRUE, last |-> "userA"],
     [cached |-> "", user |-> TRUE, last |-> ""]}

InitFont(f) ==
    /\ cachedFontBase64 = f.cached
    /\ isUserProvided = f.user
    /\ lastUserFont = f.last

InitCall(kinds) ==
    /\ pc = "ready"
    /\ archive \in kinds
    /\ fontBase64 = "none"
    /\ urlIdx = 0
    /\ fetchLog = <<>>
    /\ reported = <<>>
    /\ error = "none"
    /\ convCount = 1

InitBook ==
    /\ pkgParsed = FALSE
    /\ spineIds = <<>>
    /\ manifest = {}
    /\ entries = {}
    /\ docCreated = FALSE
    /\ serialized = FALSE
    /\ spinePos = 0
    /\ processedChapters = 0
    /\ rendered = <<>>

InitRenderer ==
    /\ y = 0
    /\ pages = 0
    /\ textBuffer = <<>>
    /\ fullTextPreview = 0
    /\ itemsLeft = 0
    /\ placed = {}
    /\ imageFailed = FALSE
    /\ lastLine = NoLine
    /\ texts = <<>>
    /\ paragraphs = <<>>

NoPath ==
    /\ pathIn = [chapter |-> <<>>, ref |-> <<>>]
    /\ pathOut = NotApplied

\* No Analyze button was pressed yet.
NoAnalysis == [id |-> 0, outcome |-> "none"]

NoApp ==
    /\ files = <<>>
    /\ isConverting = FALSE
    /\ batch = <<>>
    /\ batchPos = 0
    /\ appPc = "idle"
    /\ nextId = 0
    /\ lastAnalyze = NoAnalysis

(***************************************************************************)
(* Spec: one convertEpubToPdf call on any kind of file, in any state of    *)
(* the font module.                                                        *)
(***************************************************************************)
RefUp == <<".", ".", "/", "i">>
BookItems == {TextItem(5, FALSE, FALSE), NewlineItem}

Init ==
    /\ \E f \in FontStates : InitFont(f)
    /\ InitCall(ArchiveKinds)
    /\ InitBook /\ InitRenderer /\ NoPath /\ NoTree /\ NoApp

Next ==
    \/ ConvertStart
    \/ FetchSucceeds
    \/ FetchFails
    \/ OpenArchive
    \/ \E itemrefs \in SeqsUpTo(Ids \cup {NoIdref}, MaxSpine), man \in SUBSET Ids :
          \E ent \in SUBSET man : ReadPackage(itemrefs, man, ent)
    \/ ChapterBegin
    \/ \E item \in BookItems : RenderItem(item)
    \/ ChapterEnd
    \/ Finalize

Spec == Init /\ [][Next]_vars

(***************************************************************************)
(* SpecRender: the render loop on every kind of content event, in a book   *)
(* whose chapters all exist and with the user's font cached.               *)
(***************************************************************************)
RenderItems ==
    {TextItem(3, TRUE, TRUE), TextItem(3999, FALSE, FALSE), NewlineItem,
     ImageItem(RefUp, "ok", 680, 800), ImageItem(RefUp, "ok", 200, 600)}

InitRender ==
    /\ InitFont([cached |-> "userA", user |-> TRUE, last |-> "userA"])
    /\ InitCall({"ok"})
    /\ InitBook /\ InitRenderer /\ NoPath /\ NoTree /\ NoApp

NextRender ==
    \/ ConvertStart
    \/ OpenArchive
    \/ \E itemrefs \in SeqsUpTo({"a"}, MaxSpine) : ReadPackage(itemrefs, {"a"}, {"a"})
    \/ ChapterBegin
    \/ \E item \in RenderItems : RenderItem(item)
    \/ ChapterEnd
    \/ Finalize

SpecRender == InitRender /\ [][NextRender]_vars

(***************************************************************************)
(* SpecImage: the render loop on images of every outcome: drawn (scaled    *)
(* down, or taller than a page), failing in addImage or getImageProperties,*)
(* missing from the archive, a network URL, a malformed escape.            *)
(***************************************************************************)
ImageItems ==
    {TextItem(3, TRUE, TRUE), NewlineItem,
     ImageItem(RefUp, "ok", 680, 800),
     ImageItem(RefUp, "ok", 200, 600), ImageItem(RefUp, "badAdd", 680, 800),
     ImageItem(RefUp, "badData", 0, 0), ImageItem(<<"i">>, "ok", 100, 60),
     ImageItem(RefHttp, "ok", 100, 60), ImageItem(RefBadEscape, "ok", 100, 60)}

NextImage ==
    \/ ConvertStart
    \/ OpenArchive
    \/ \E itemrefs \in SeqsUpTo({"a"}, MaxSpine) : ReadPackage(itemrefs, {"a"}, {"a"})
    \/ ChapterBegin
    \/ \E item \in ImageItems : RenderItem(item)
    \/ ChapterEnd
    \/ Finalize

SpecImage == InitRender /\ [][NextImage]_vars

(***************************************************************************)
(* SpecPreview: the render loop on paragraphs long enough to fill the      *)
(* preview.                                                                *)
(***************************************************************************)
PreviewItems == {TextItem(3, TRUE, TRUE), TextItem(14998, FALSE, FALSE), NewlineItem}

NextPreview ==
    \/ ConvertStart
    \/ OpenArchive
    \/ \E itemrefs \in SeqsUpTo({"a"}, MaxSpine) : ReadPackage(itemrefs, {"a"}, {"a"})
    \/ ChapterBegin
    \/ \E item \in PreviewItems : RenderItem(item)
    \/ ChapterEnd
    \/ Finalize

SpecPreview == InitRender /\ [][NextPreview]_vars

(***************************************************************************)
(* SpecPath: resolveImagePath on its own.                                  *)
(***************************************************************************)
InitPathSpec ==
    /\ InitPath
    /\ InitFont([cached |-> "null", user |-> FALSE, last |-> "none"])
    /\ InitCall({"ok"})
    /\ InitBook /\ InitRenderer /\ NoTree /\ NoApp

SpecPath == InitPathSpec /\ [][ResolveStep]_vars

(***************************************************************************)
(* SpecTree: traverse on its own.                                          *)
(***************************************************************************)
InitTreeSpec ==
    /\ InitTree
    /\ InitFont([cached |-> "null", user |-> FALSE, last |-> "none"])
    /\ InitCall({"ok"})
    /\ InitBook /\ InitRenderer /\ NoPath /\ NoApp

SpecTree == InitTreeSpec /\ [][Linearize]_vars

(***************************************************************************)
(* SpecApp: the file list of the App component and startConversion.  A     *)
(* convertEpubToPdf call is seen from its caller: progress callbacks, then *)
(* the promise resolves with a text preview or rejects with an error.      *)
(***************************************************************************)
MaxFiles == 2

NewFile(id) ==
    [id |-> id, status |-> "IDLE", progress |-> 0, errorMessage |-> "undefined",
     pdfUrl |-> "undefined", summary |-> "undefined", textPreview |-> "undefined"]

\* { ...f, ...updates }
Merge(f, updates) ==
    [k \in DOMAIN f |-> IF k \in DOMAIN updates THEN updates[k] ELSE f[k]]

updateFileStatus(fs, id, updates) ==
    [i \in DOMAIN fs |-> IF fs[i].id = id THEN Merge(fs[i], updates) ELSE fs[i]]

addFiles(n) ==
    /\ nextId + n <= MaxFiles
    /\ files' = files \o [i \in 1..n |-> NewFile(nextId + i)]
    /\ nextId' = nextId + n
    /\ UNCHANGED <<isConverting, batch, batchPos, appPc, lastAnalyze, otherVars>>

removeFile(id) ==
    /\ \E i \in DOMAIN files : files[i].id = id
    /\ files' = SelectSeq(files, LAMBDA f : f.id # id)
    /\ UNCHANGED <<isConverting, batch, batchPos, appPc, nextId, lastAnalyze, otherVars>>

\* The Clear All button.
ClearAll ==
    /\ ~isConverting
    /\ files # <<>>
    /\ files' = <<>>
    /\ UNCHANGED <<isConverting, batch, batchPos, appPc, nextId, lastAnalyze, otherVars>>

\* A loop that skips COMPLETED and PROCESSING entries only.
IdleAfterRetry(snapshot, from) ==
    {j \in (from + 1)..Len(snapshot) : snapshot[j].status \in {"IDLE", "ERROR"}}

\* The entries of the captured array after position from that the loop does
\* not skip.
IdleAfter(snapshot, from) ==
    {j \in (from + 1)..Len(snapshot) : snapshot[j].status = "IDLE"}

\* The for loop of startConversion from position from up to its next await,
\* or to its end.
ContinueLoop(fs, snapshot, from) ==
    IF IdleAfter(snapshot, from) # {}
    THEN LET j == CHOOSE m \in IdleAfter(snapshot, from) :
                      \A n \in IdleAfter(snapshot, from) : m <= n
         IN  /\ files' = updateFileStatus(fs, snapshot[j].id,
                             [status |-> "PROCESSING", progress |-> 0])
             /\ batchPos' = j
             /\ appPc' = "converting"
             /\ isConverting' = TRUE
    ELSE /\ files' = fs
         /\ batchPos' = Len(snapshot)
         /\ appPc' = "idle"
         /\ isConverting' = FALSE

\* The Start button.
startConversion ==
    /\ ~isConverting
    /\ appPc = "idle"
    /\ files # <<>>
    /\ IF \A i \in DOMAIN files : files[i].status # "IDLE"
       THEN UNCHANGED <<files, isConverting, batch, batchPos, appPc>>
       ELSE /\ batch' = files
            /\ ContinueLoop(files, files, 0)
    /\ UNCHANGED <<nextId, lastAnalyze, otherVars>>

\* The onProgress callback of the running conversion.
ConvProgress(progress) ==
    /\ appPc = "converting"
    /\ \E i \in DOMAIN files :
           files[i].id = batch[batchPos].id /\ files[i].progress < progress
    /\ files' = updateFileStatus(files, batch[batchPos].id, [progress |-> progress])
    /\ UNCHANGED <<isConverting, batch, batchPos, appPc, nextId, lastAnalyze, otherVars>>

\* The awaited conversion resolves.
ConvResolves(textPreview) ==
    /\ appPc = "converting"
    /\ batch' = [batch EXCEPT ![batchPos].textPreview = textPreview]
    /\ ContinueLoop(updateFileStatus(files, batch[batchPos].id,
                        [status |-> "COMPLETED", progress |-> 100, pdfUrl |-> "blob"]),
                    batch, batchPos)
    /\ UNCHANGED <<nextId, lastAnalyze, otherVars>>

\* A startConversion without its catch block: the rejection ends the batch.
ConvRejectsUncaught(message) ==
    /\ appPc = "converting"
    /\ appPc' = "idle"
    /\ UNCHANGED <<files, isConverting, batch, batchPos, nextId, lastAnalyze, otherVars>>

\* The awaited conversion rejects.
ConvRejects(message) ==
    /\ appPc = "converting"
    /\ ContinueLoop(updateFileStatus(files, batch[batchPos].id,
                        [status |-> "ERROR",
                         errorMessage |-> IF message = "" THEN "Unknown error" ELSE message,
                         progress |-> 0]),
                    batch, batchPos)
    /\ UNCHANGED <<batch, nextId, lastAnalyze, otherVars>>

\* The Analyze button of a file, enabled once the file is COMPLETED:
\* handleAnalyze up to its alert or its call of summarizeBookContent.
handleAnalyze(id) ==
    /\ \E i \in DOMAIN files : files[i].id = id /\ files[i].status = "COMPLETED"
    /\ LET file == CHOOSE f \in {files[i] : i \in DOMAIN files} : f.id = id
       IN  IF ~Truthy(IF file.textPreview = "undefined" THEN "" ELSE file.textPreview)
           THEN /\ lastAnalyze' = [id |-> id, outcome |-> "alert"]
                /\ UNCHANGED files
           ELSE /\ lastAnalyze' = [id |-> id, outcome |-> "summarize"]
                /\ files' = updateFileStatus(files, id, [summary |-> "analyzing"])
    /\ UNCHANGED <<isConverting, batch, batchPos, appPc, nextId, otherVars>>

Settles ==
    \/ \E textPreview \in {"", "text"} : ConvResolves(textPreview)
    \/ \E message \in {ErrContainer, ErrFont, ""} : ConvRejects(message)

InitApp ==
    /\ InitFont([cached |-> "null", user |-> FALSE, last |-> "none"])
    /\ InitCall({"ok"})
    /\ InitBook /\ InitRenderer /\ NoPath /\ NoTree /\ NoApp

NextApp ==
    \/ \E n \in 1..2 : addFiles(n)
    \/ \E id \in 1..MaxFiles : removeFile(id)
    \/ ClearAll
    \/ startConversion
    \/ \E progress \in {1, 20, 100} : ConvProgress(progress)
    \/ \E textPreview \in {"", "text"} : ConvResolves(textPreview)
    \/ \E message \in {ErrContainer, ErrFont, ""} : ConvRejects(message)
    \/ \E id \in 1..MaxFiles : handleAnalyze(id)

\* Every conversion settles: convertEpubToPdf has no unbounded loop and its
\* awaits are on I/O that completes.
SpecApp == InitApp /\ [][NextApp]_vars /\ WF_vars(Settles)

(***************************************************************************)
(* SpecFont: the font module under uploads and successive conversions; the *)
(* files converted fail once they are opened, so that a call ends after    *)
(* its font step.                                                          *)
(***************************************************************************)
\* A later call of convertEpubToPdf, once the previous one has settled.
NextCall(kinds) ==
    /\ pc \in {"failed", "returned"}
    /\ convCount < MaxConversions
    /\ convCount' = convCount + 1
    /\ pc' = "ready"
    /\ archive' \in kinds
    /\ fontBase64' = "none"
    /\ urlIdx' = 0
    /\ fetchLog' = <<>>
    /\ reported' = <<>>
    /\ error' = "none"
    /\ pkgParsed' = FALSE
    /\ spineIds' = <<>>
    /\ manifest' = {}
    /\ entries' = {}
    /\ docCreated' = FALSE
    /\ serialized' = FALSE
    /\ spinePos' = 0
    /\ processedChapters' = 0
    /\ rendered' = <<>>
    /\ y' = 0
    /\ pages' = 0
    /\ textBuffer' = <<>>
    /\ fullTextPreview' = 0
    /\ itemsLeft' = 0
    /\ placed' = {}
    /\ imageFailed' = FALSE
    /\ lastLine' = NoLine
    /\ texts' = <<>>
    /\ paragraphs' = <<>>
    /\ UNCHANGED <<fontVars, pathVars, treeVars, appVars>>

InitFontSpec ==
    /\ InitFont([cached |-> "null", user |-> FALSE, last |-> "none"])
    /\ InitCall({"notZip", "noContainer"})
    /\ InitBook /\ InitRenderer /\ NoPath /\ NoTree /\ NoApp

NextFont ==
    \/ ConvertStart
    \/ FetchSucceeds
    \/ FetchFails
    \/ OpenArchive
    \/ NextCall({"notZip", "noContainer"})
    \/ \E file \in UserFiles : SetCustomFont(file)

SpecFont == InitFontSpec /\ [][NextFont]_vars

(***************************************************************************)
(* Properties of one conversion (Spec).                                    *)
(***************************************************************************)
AllFetchesFailed ==
    /\ Len(fetchLog) = Len(FONT_URLS)
    /\ \A i \in 1..Len(fetchLog) : ~fetchLog[i].ok

\* C1, as stated: on an archive without META-INF/container.xml the call
\* fails with the missing-container error and no font has been fetched
\* before the failure.
C1_NoFetchBeforeContainerError ==
    archive = "noContainer" =>
        /\ fetchLog = <<>>
        /\ pc = "failed" => error = ErrContainer

\* C1, amended: on an archive without META-INF/container.xml the call never
\* reads the package document nor creates the output document; it fails
\* with the missing-container error only after the font step has completed
\* (from the cache or by a fetch) and onProgress(10), and with the font
\* error instead when every fetch failed.
C1_ContainerErrorAfterFont ==
    archive = "noContainer" =>
        /\ pc \in {"ready", "fetching", "fontReady", "failed"}
        /\ ~pkgParsed /\ ~docCreated /\ ~serialized
        /\ pc = "failed" => error \in {ErrContainer, ErrFont}
        /\ error = ErrContainer => fontBase64 # "none" /\ reported = <<1, 10>>
        /\ error = ErrFont => AllFetchesFailed /\ fontBase64 = "none"

C1_Witness ==
    /\ archive = "noContainer"
    /\ pc = "failed" /\ error = ErrContainer
    /\ fetchLog # <<>>

\* C2: the values passed to onProgress are integers in 0..100, never
\* decrease, and the last one of a call that returns is 100.
C2_ProgressMonotone ==
    /\ \A i \in 1..Len(reported) : reported[i] \in 0..100
    /\ \A i \in 2..Len(reported) : reported[i - 1] <= reported[i]
    /\ pc = "returned" => reported # <<>> /\ Last(reported) = 100

C2_Witness ==
    /\ pc = "returned"
    /\ rendered # <<>>
    /\ Len(rendered) < Len(spineIds)
    /\ Len(spineIds) = MaxSpine

\* The spine ids among the first n that have an href and an archive entry.
RenderableSpine(n) == Filter(SubSeq(spineIds, 1, n), manifest \cap entries)

\* C5: the chapters rendered are, in spine order, exactly the spine ids with
\* a manifest entry and an archive entry; a skipped id never fails the call.
C5_RenderedIsRenderableSpine ==
    /\ rendered = RenderableSpine(spinePos + (IF pc = "items" THEN 1 ELSE 0))
    /\ pc = "returned" => rendered = RenderableSpine(Len(spineIds))
    /\ docCreated => pc # "failed"

C5_Witness ==
    /\ pc = "returned"
    /\ Len(spineIds) = 2
    /\ spineIds[1] \notin manifest \cap entries
    /\ rendered = <<spineIds[2]>>

\* C6: a package document without idrefs ends the call with the
\* no-chapters error; no output document is created or serialized.
C6_EmptySpineFails ==
    (pkgParsed /\ spineIds = <<>>) =>
        /\ pc = "failed" /\ error = ErrNoChapters
        /\ ~docCreated /\ ~serialized /\ pages = 0

C6_Witness == pkgParsed /\ spineIds = <<>> /\ error = ErrNoChapters

\* C7: the URLs are fetched in list order and none after a success; when
\* all have failed the call fails with the font error and no output
\* document exists.
C7_FontFallback ==
    /\ Len(fetchLog) <= Len(FONT_URLS)
    /\ \A i \in 1..Len(fetchLog) :
          /\ fetchLog[i].url = i
          /\ fetchLog[i].ok => i = Len(fetchLog) /\ fontBase64 = RemoteFont(i)
    /\ AllFetchesFailed => pc = "failed" /\ error = ErrFont
    /\ error = ErrFont =>
          /\ AllFetchesFailed
          /\ pc = "failed" /\ fontBase64 = "none"
          /\ ~docCreated /\ ~serialized /\ pages = 0

C7_Witness == error = ErrFont /\ AllFetchesFailed

(***************************************************************************)
(* Properties of the renderer (SpecRender, SpecPreview).                   *)
(***************************************************************************)
\* C4, as stated: the preview never holds more than 15,000 characters.
C4_PreviewAtMostCap == fullTextPreview <= PreviewCap

\* C4, amended: the preview only grows, and only from a length below
\* 15,000: once it holds 15,000 characters or more it never changes.
C4_PreviewGrowsOnlyBelowCap ==
    [][fullTextPreview' # fullTextPreview =>
          fullTextPreview < PreviewCap /\ fullTextPreview' > fullTextPreview]_vars

C4_Witness == fullTextPreview > PreviewCap /\ pc = "returned"

\* C8: every line and image is placed with margin <= y <= pageHeight - margin,
\* and a placement that follows a page break is at the top margin.
C8_PlacedInsideMargins ==
    \A p \in placed :
        /\ margin <= p.y /\ p.y <= pageHeight - margin
        /\ p.fresh => p.y = margin

C8_Witness ==
    /\ \E p \in placed : p.kind = "line" /\ p.fresh
    /\ \E p \in placed : p.kind = "line" /\ ~p.fresh
    /\ spinePos > 0

(***************************************************************************)
(* Properties of the font module (SpecFont).                               *)
(***************************************************************************)
\* C3: once setCustomFont has resolved, the cache holds the font it set and
\* the font counts as the user's, whatever runs afterwards.
C3_UserFontStaysCached ==
    lastUserFont # "none" =>
        /\ cachedFontBase64 = lastUserFont
        /\ isUserProvided

(***************************************************************************)
(* Properties of resolveImagePath (SpecPath).                              *)
(***************************************************************************)
\* An absolute network URL: http:// or https:// and what follows.
IsNetworkUrl(ref) ==
    \/ StartsWith(ref, <<"h", "t", "t", "p", ":", "/", "/">>)
    \/ StartsWith(ref, <<"h", "t", "t", "p", "s", ":", "/", "/">>)

\* C9: resolveImagePath returns nothing exactly when the reference is empty
\* or an absolute network URL.
C9_NothingExactlyForEmptyOrUrl ==
    pathOut # NotApplied =>
        (pathOut.kind = "null" <=> (pathIn.ref = <<>> \/ IsNetworkUrl(pathIn.ref)))

(***************************************************************************)
(* Properties of a batch (SpecApp).                                        *)
(***************************************************************************)
Processing == {i \in DOMAIN files : files[i].status = "PROCESSING"}

\* The file is one the running batch converts.
InBatch(id) ==
    /\ isConverting
    /\ \E j \in DOMAIN batch : batch[j].id = id /\ batch[j].status = "IDLE"

\* The record of the file, while it is in the list, is COMPLETED, or ERROR
\* with a message.
Settled(id) ==
    \A i \in DOMAIN files :
        files[i].id = id =>
            \/ files[i].status = "COMPLETED"
            \/ /\ files[i].status = "ERROR"
               /\ files[i].errorMessage \notin {"undefined", ""}

\* C10: in a batch at most one file is PROCESSING, and it is the one the loop
\* is at; every file the batch converts ends COMPLETED or ERROR with a
\* message, whichever others fail; and isConverting goes back to false.
C10_BatchSettlesEveryFile ==
    /\ [](/\ Cardinality(Processing) <= 1
          /\ \A i \in Processing : isConverting /\ files[i].id = batch[batchPos].id)
    /\ \A id \in 1..MaxFiles : InBatch(id) ~> Settled(id)
    /\ isConverting ~> ~isConverting

C10_Witness ==
    /\ ~isConverting
    /\ Len(batch) >= 2
    /\ \A j \in DOMAIN batch : batch[j].status = "IDLE"
    /\ \E i, j \in DOMAIN files :
           /\ files[i].id = batch[1].id /\ files[i].status = "ERROR"
           /\ files[j].id = batch[2].id /\ files[j].status = "COMPLETED"

(***************************************************************************)
(* Properties of the Image branch (SpecImage).                             *)
(***************************************************************************)
\* C11: an Image event whose resolving, decoding or placing throws never
\* ends the call: the step that throws places no image and leaves the
\* render loop running with one event less to go, no error is ever raised
\* afterwards, and a call that returns has rendered every chapter.
C11_ImageFailureIsolated ==
    /\ [](imageFailed =>
             /\ pc \in {"items", "chapters", "returned"}
             /\ error = "none"
             /\ pc = "returned" => serialized /\ Len(rendered) = Len(spineIds))
    /\ [][(imageFailed' /\ ~imageFailed) =>
             /\ pc' = "items"
             /\ itemsLeft' = itemsLeft - 1
             /\ \A p \in placed' : p.kind # "image"]_vars

C11_Witness ==
    /\ imageFailed
    /\ pc = "items"
    /\ Len(rendered) = 2
    /\ itemsLeft = MaxItems

(***************************************************************************)
(* Properties of the chapter spacing (SpecRender).                         *)
(***************************************************************************)
\* C12: once a chapter that placed a line is rendered, the cursor is two
\* line heights below the end of that line or on a later page; and a line
\* of a later chapter is on a later page than the last line of the chapter
\* before, or below it on the same page.
C12_ChaptersApart ==
    /\ []((pc = "chapters" /\ lastLine.chapter # 0 /\ lastLine.chapter = Len(rendered)) =>
             \/ pages > lastLine.page
             \/ y >= lastLine.y + lineHeight + 2 * lineHeight)
    /\ [][\A p \in placed' :
             (p.kind = "line" /\ lastLine.chapter # 0 /\ lastLine.chapter < Len(rendered')) =>
                 \/ p.page > lastLine.page
                 \/ p.page = lastLine.page /\ p.y > lastLine.y]_vars

C12_Witness ==
    /\ lastLine.chapter = 1
    /\ Len(rendered) = 2
    /\ pc = "items"
    /\ textBuffer # <<>>
    /\ pages = lastLine.page
    /\ y = lastLine.y + lineHeight + 2 * lineHeight

\* C13: an image is drawn no larger than its intrinsic size, its width is
\* the smaller of the intrinsic width and the content width, and the width
\* to height ratio drawn is the intrinsic one.
C13_ScaledUniformly ==
    \A p \in placed :
        p.kind = "image" =>
            /\ p.w <= p.iw /\ p.h <= p.ih
            /\ p.w = (IF p.iw < maxLineWidth THEN p.iw ELSE maxLineWidth)
            /\ p.w * p.ih = p.h * p.iw

C13_Witness == \E p \in placed : p.kind = "image" /\ p.w < p.iw /\ p.h < p.ih

(***************************************************************************)
(* Properties of textBuffer (SpecRender).                                  *)
(***************************************************************************)
RECURSIVE Concat(_)
Concat(seqs) == IF seqs = <<>> THEN <<>> ELSE Head(seqs) \o Concat(Tail(seqs))

\* C14: the paragraphs flushed, followed by what textBuffer holds, are the
\* Text events of the chapter in their order; a chapter starts with an
\* empty buffer and ends with all of its Text events flushed; a Text event
\* is appended to the buffer and lays nothing out; and after any other
\* event the buffer is empty.
C14_TextFlushedOnce ==
    /\ [](/\ \A i \in DOMAIN paragraphs : paragraphs[i] # <<>>
          /\ pc = "items" => Concat(paragraphs) \o Lens(textBuffer) = texts
          /\ (pc = "items" /\ itemsLeft = MaxItems) => textBuffer = <<>> /\ texts = <<>>
          /\ pc \in {"chapters", "returned"} => Concat(paragraphs) = texts)
    /\ [][(pc = "items" /\ pc' = "items") =>
             IF Len(texts') = Len(texts) + 1
             THEN /\ Lens(textBuffer') = Lens(textBuffer) \o <<Last(texts')>>
                  /\ placed' = {} /\ y' = y /\ pages' = pages
                  /\ paragraphs' = paragraphs
             ELSE textBuffer' = <<>>]_vars

C14_Witness ==
    /\ pc = "chapters"
    /\ Len(rendered) = 2
    /\ Len(paragraphs) = 1
    /\ Len(paragraphs[1]) = 2

(***************************************************************************)
(* Properties of the progress of the chapter loop (Spec).                  *)
(***************************************************************************)
\* C15: once the chapter loop has handled k of the n spine entries, rendered
\* or skipped, the last value reported is 20 + floor(75 * k / n); so it is
\* 95 after the last entry.
C15_ProgressPerSpineEntry ==
    (pc = "chapters" /\ spinePos >= 1) =>
        Last(reported) = 20 + (75 * spinePos) \div Len(spineIds)

(***************************************************************************)
(* Properties of traverse (SpecTree).                                      *)
(***************************************************************************)
\* The events of a node by the break rules: a text node with a non-blank
\* character is one Text event; a skipped element is nothing; an image
\* element is its own Image event and nothing of its descendants; a heading
\* is two Newline events, its children's events, one Newline; another
\* block element is its children's events and one Newline; br is one
\* Newline; any other element is its children's events (an svg wrapper, of
\* which the rules say nothing, being the image found inside it).
RECURSIVE EventsByRule(_)
RECURSIVE EventsOfAll(_)
EventsByRule(node) ==
    IF node.tag = "#text"
    THEN (IF NotBlank(node.text) THEN <<Event("text", CollapseSpaces(node.text))>> ELSE <<>>)
    ELSE IF node.tag \in {"head", "style", "script", "title", "meta", "link"} THEN <<>>
    ELSE IF node.tag \in {"img", "image"} THEN PushImage(<<>>, SrcOf(node))
    ELSE IF node.tag = "svg" THEN EventsOfAll(FirstImage(node.kids))
    ELSE IF node.tag \in {"h1", "h2", "h3", "h4", "h5", "h6"}
    THEN <<NewlineEvent, NewlineEvent>> \o EventsOfAll(node.kids) \o <<NewlineEvent>>
    ELSE IF node.tag \in {"p", "div", "li", "blockquote", "section", "article"}
    THEN EventsOfAll(node.kids) \o <<NewlineEvent>>
    ELSE IF node.tag = "br" THEN <<NewlineEvent>>
    ELSE EventsOfAll(node.kids)

EventsOfAll(kids) ==
    IF kids = <<>> THEN <<>> ELSE EventsByRule(Head(kids)) \o EventsOfAll(Tail(kids))

\* C16: the events traverse pushes for a tree are those of the break rules,
\* in document order.
C16_EventsFollowRules ==
    items # NotLinearized => items = EventsByRule(docTree)

C16_Witness ==
    /\ items # NotLinearized
    /\ Len(docTree.kids) = 2
    /\ docTree.kids[1].tag = "h2"
    /\ Len(docTree.kids[1].kids) = 2
    /\ docTree.kids[1].kids[1].tag = "li"
    /\ docTree.kids[1].kids[2].tag = "br"
    /\ docTree.kids[2].tag = "img"
    /\ Len(items) = 7

(***************************************************************************)
(* Properties of the image placement (SpecImage).                          *)
(***************************************************************************)
\* C17: every image drawn lies between the top and the bottom margin:
\* margin <= y and y + scaled height <= pageHeight - margin.
C17_ImageInsideContentArea ==
    \A p \in placed :
        p.kind = "image" => margin <= p.y /\ p.y + p.h <= pageHeight - margin

(***************************************************************************)
(* Properties of handleAnalyze (SpecApp).                                  *)
(***************************************************************************)
\* C18: handleAnalyze on a file whose conversion returned a non-empty
\* preview passes the preview to summarizeBookContent and raises no alert.
C18_AnalyzeFindsPreview ==
    \A j \in DOMAIN batch :
        (lastAnalyze.id = batch[j].id /\ batch[j].textPreview \notin {"undefined", ""}) =>
            lastAnalyze.outcome = "summarize"

(***************************************************************************)
(* Properties of the font module across uploads and calls (SpecFont).      *)
(***************************************************************************)
\* C19: whenever isCustomFontLoaded() is true, the cache holds the font the
\* user uploaded last and getFontBase64 would return it without a download.
C19_LoadedMeansUserFontUsed ==
    isCustomFontLoaded =>
        /\ Truthy(cachedFontBase64)
        /\ cachedFontBase64 = lastUserFont

(***************************************************************************)
(* Properties of the per-file status (SpecApp).                            *)
(***************************************************************************)
\* The status of the record with this id in the list, "absent" without one.
StatusOf(fs, id) ==
    IF \E i \in DOMAIN fs : fs[i].id = id
    THEN (CHOOSE f \in {fs[i] : i \in DOMAIN fs} : f.id = id).status
    ELSE "absent"

\* The statuses a record may have one step after it had this one; a record
\* may leave the list from any status.
StatusesAfter(status) ==
    {"absent"} \cup
    CASE status = "absent"     -> {"IDLE"}
      [] status = "IDLE"       -> {"IDLE", "PROCESSING"}
      [] status = "PROCESSING" -> {"PROCESSING", "COMPLETED", "ERROR"}
      [] status = "COMPLETED"  -> {"COMPLETED"}
      [] status = "ERROR"      -> {"ERROR"}

\* C20: a file's status moves IDLE -> PROCESSING -> COMPLETED or ERROR only
\* and never leaves COMPLETED or ERROR, also when a later batch starts; at
\* most one file is PROCESSING; a COMPLETED file has progress 100 and a
\* pdfUrl; an ERROR file has progress 0 and an error message.
C20_StatusLifecycle ==
    /\ [](/\ Cardinality(Processing) <= 1
          /\ \A i \in DOMAIN files :
                 /\ files[i].status \in {"IDLE", "PROCESSING", "COMPLETED", "ERROR"}
                 /\ files[i].status = "COMPLETED" =>
                        files[i].progress = 100 /\ files[i].pdfUrl # "undefined"
                 /\ files[i].status = "ERROR" =>
                        /\ files[i].progress = 0
                        /\ files[i].errorMessage \notin {"undefined", ""})
    /\ [][\A id \in 1..MaxFiles :
              StatusOf(files', id) \in StatusesAfter(StatusOf(files, id))]_vars

\* A second batch is converting its new file while the file that failed in
\* the first batch is still in the list.
C20_Witness ==
    /\ appPc = "converting"
    /\ Len(batch) = 2
    /\ batch[1].status = "ERROR"
    /\ batchPos = 2
    /\ StatusOf(files, batch[1].id) = "ERROR"
    /\ StatusOf(files, batch[2].id) = "PROCESSING"

====
